---- MODULE Spec2Model ----
(***************************************************************************)
(* Advent of Code 2020 day 16 (src/main.go): the line-processing loop of   *)
(* main, the ticket validator isValidTicket, the field resolver            *)
(* getOrdering and the two printed results.                                *)
(*                                                                         *)
(* Strings that the program inspects (field names, the "departure "        *)
(* prefix) are sequences of one-character strings, so that                 *)
(* strings.HasPrefix is computed and not looked up.  The empty string is   *)
(* the empty sequence.  Go slices are sequences; a Go index i is the       *)
(* sequence index i + 1.                                                   *)
(***************************************************************************)
EXTENDS Integers, Sequences, FiniteSets, TLC

\* ------------------------------------------------------------------ bounds

\* At most this many constraint lines are read.
MaxConfigs == 2

\* At most this many ticket lines (own and nearby together) are read.
MaxTickets == 2

\* getOrdering entered on its own takes at most this many constraints.
MaxResolveConfigs == 3

\* getOrdering entered on its own takes at most this many records.
MaxResolveTickets == 2

\* ------------------------------------------------------- the input alphabet

\* The integers that occur on ticket lines.
Values == {1, 2}

Departure == <<"d", "e", "p", "a", "r", "t", "u", "r", "e">>

\* The prefix without its final space.
DeparturePrefixNoSpace == Departure

\* The literal of strings.HasPrefix(field, "departure ").
DeparturePrefix == Departure \o <<" ">>

DepartureX == Departure \o <<" ", "x">>
Row == <<"r", "o", "w">>
Seat == <<"s", "e", "a", "t">>

ValidRange(min, max) == [Min |-> min, Max |-> max]

Configuration(field, ranges) == [Field |-> field, Ranges |-> ranges]

Ticket(values) == [Values |-> values]

\* The constraint lines the input may hold, as parseConfiguration returns them:
\*   departure x: 1-2      row: 1-1      seat: 2-2      departure: 1-1 or 2-2
ConfigLines ==
    { Configuration(DepartureX, <<ValidRange(1, 2)>>),
      Configuration(Row, <<ValidRange(1, 1)>>),
      Configuration(Seat, <<ValidRange(2, 2)>>),
      Configuration(Departure, <<ValidRange(1, 1), ValidRange(2, 2)>>) }

\* The lines the scanner returns (line 201), by what lines 204, 210 and 215
\* tell apart and by what the parsers return for the others.
NoLine == [kind |-> "none"]
EmptyLine == [kind |-> "empty"]
YourTicketLine == [kind |-> "your ticket"]
NearbyTicketsLine == [kind |-> "nearby tickets"]
ConfigLine(config) == [kind |-> "config", config |-> config]
TicketLine(ticket) == [kind |-> "ticket", ticket |-> ticket]

\* The ticket lines the input may hold, as parseTicket returns them: "a,b".
TicketLines == { Ticket(<<a, b>>) : a \in Values, b \in Values }

\* ---------------------------------------------------------------- the state

VARIABLES
    pc,                 \* where main is: read, call, loop, scan, ret, done, panic
    line,               \* the line the scanner returned last, inside the loop
    readConfiguration,  \* main's three section flags
    readYourTicket,
    readNearbyTicket,
    configs,            \* main's configs slice (its view of the backing array)
    myTicket,
    validNearbyTickets,
    invalidValues,
    valid,              \* the results of the last isValidTicket call in main
    invalids,
    sum,                \* the first printed result
    mul,                \* the second printed result
    goConfigs,          \* getOrdering's configs parameter (the remaining set)
    fieldSize,
    orderedFields,
    fieldPos,
    passConfigs,        \* history: goConfigs when the current pass began
    passFields,         \* history: orderedFields when the current pass began
    configLines,        \* history: the constraints parsed from the input
    ticketLines         \* history: the ticket lines read, each with its section

vars == << pc, line, readConfiguration, readYourTicket, readNearbyTicket, configs,
           myTicket, validNearbyTickets, invalidValues, valid, invalids, sum,
           mul, goConfigs, fieldSize, orderedFields, fieldPos, passConfigs,
           passFields, configLines, ticketLines >>

mainVars == << line, readConfiguration, readYourTicket, readNearbyTicket, myTicket,
               validNearbyTickets, invalidValues, valid, invalids, sum,
               configLines, ticketLines >>

getOrderingVars == << goConfigs, fieldSize, orderedFields, fieldPos,
                      passConfigs, passFields >>

\* ------------------------------------------------------------ isValidTicket

\* The range test with an exclusive lower bound.
foundValidStrict(value, cfgs) ==
    \E c \in 1..Len(cfgs) :
        \E r \in 1..Len(cfgs[c].Ranges) :
            /\ value > cfgs[c].Ranges[r].Min
            /\ value <= cfgs[c].Ranges[r].Max

\* Lines 92-100: the flag foundValid after both loops (no break: every range
\* of every config is tried, and any hit sets the flag).
foundValid(value, cfgs) ==
    \E c \in 1..Len(cfgs) :
        \E r \in 1..Len(cfgs[c].Ranges) :
            /\ value >= cfgs[c].Ranges[r].Min
            /\ value <= cfgs[c].Ranges[r].Max

\* Lines 89-105: the loop over ticket.Values from index idx on, with the
\* slice invalidValues built so far.
RECURSIVE collectInvalid(_, _, _, _)
collectInvalid(values, cfgs, idx, acc) ==
    IF idx > Len(values)
    THEN acc
    ELSE collectInvalid(values, cfgs, idx + 1,
                        IF foundValid(values[idx], cfgs)
                        THEN acc
                        ELSE Append(acc, values[idx]))

\* A validator that reports the first invalid value only.
isValidTicketFirstOnly(ticket, cfgs) ==
    LET found == collectInvalid(ticket.Values, cfgs, 1, <<>>)
    IN  IF Len(found) > 0
        THEN [valid |-> FALSE, invalids |-> <<found[1]>>]
        ELSE [valid |-> TRUE, invalids |-> <<>>]

\* A validator that accepts every ticket.
isValidTicketAcceptAll(ticket, cfgs) ==
    [valid |-> TRUE, invalids |-> <<>>]

\* Lines 86-112.  The nil slice returned for a valid ticket is the empty
\* sequence.
isValidTicket(ticket, cfgs) ==
    LET found == collectInvalid(ticket.Values, cfgs, 1, <<>>)
    IN  IF Len(found) > 0
        THEN [valid |-> FALSE, invalids |-> found]
        ELSE [valid |-> TRUE, invalids |-> <<>>]

\* -------------------------------------------------------------- getOrdering

\* Lines 123-126: the values at fieldPos of all tickets.
columnValues(tickets, pos) ==
    [t \in 1..Len(tickets) |-> tickets[t].Values[pos + 1]]

\* A config test that wants every range to hold the value.
isValidConfigAllRanges(config, values) ==
    \A v \in 1..Len(values) :
        \A r \in 1..Len(config.Ranges) :
            /\ values[v] >= config.Ranges[r].Min
            /\ values[v] <= config.Ranges[r].Max

\* A config test that looks at the first record's value only.
isValidConfigFirstValue(config, values) ==
    \E r \in 1..Len(config.Ranges) :
        /\ values[1] >= config.Ranges[r].Min
        /\ values[1] <= config.Ranges[r].Max

\* Lines 134-151: the flag isValidConfig after the loop over values.
isValidConfig(config, values) ==
    \A v \in 1..Len(values) :
        \E r \in 1..Len(config.Ranges) :
            /\ values[v] >= config.Ranges[r].Min
            /\ values[v] <= config.Ranges[r].Max

\* Lines 130-132: the three locals before the loop over configs.
scanStart ==
    [validConfigCount |-> 0,
     validConfig |-> Configuration(<<>>, <<>>),
     validConfigIdx |-> -1]

\* The loop over configs breaking at the first valid config.
RECURSIVE scanConfigsBreakFirst(_, _, _, _)
scanConfigsBreakFirst(cfgs, values, idx, st) ==
    IF idx >= Len(cfgs)
    THEN st
    ELSE IF isValidConfig(cfgs[idx + 1], values)
         THEN [validConfigCount |-> st.validConfigCount + 1,
               validConfig |-> cfgs[idx + 1],
               validConfigIdx |-> idx]
         ELSE scanConfigsBreakFirst(cfgs, values, idx + 1, st)

\* Lines 133-165: the loop over configs from Go index idx on; it breaks as
\* soon as a second config is valid.
RECURSIVE scanConfigs(_, _, _, _)
scanConfigs(cfgs, values, idx, st) ==
    IF idx >= Len(cfgs)
    THEN st
    ELSE IF isValidConfig(cfgs[idx + 1], values)
         THEN LET hit == [validConfigCount |-> st.validConfigCount + 1,
                          validConfig |-> cfgs[idx + 1],
                          validConfigIdx |-> idx]
              IN  IF hit.validConfigCount > 1
                  THEN hit
                  ELSE scanConfigs(cfgs, values, idx + 1, hit)
         ELSE scanConfigs(cfgs, values, idx + 1, st)

\* The outer loop giving up after a pass that resolved nothing.
loopConditionUntilNoProgress(cfgs) == Len(cfgs) > 0 /\ cfgs # passConfigs

\* Line 119: the condition of the outer loop.
loopCondition(cfgs) == Len(cfgs) > 0

\* Assigning whenever some config is valid.
isUniqueAtLeastOne(count) == count >= 1

\* Line 167: the condition under which the position is assigned.
isUnique(count) == count = 1

\* append(configs[:idx], configs[idx:]...): nothing is removed.
removeAtKeep(cfgs, idx) ==
    SubSeq(cfgs, 1, idx) \o SubSeq(cfgs, idx + 1, Len(cfgs))

\* configs[1:]: the first config is removed, whichever was assigned.
removeAtHead(cfgs, idx) == Tail(cfgs)

\* append(configs[:idx], configs[idx+2:]...): the next config goes too.
removeAtThrough(cfgs, idx) ==
    SubSeq(cfgs, 1, idx) \o SubSeq(cfgs, idx + 3, Len(cfgs))

\* Line 173: append(configs[:idx], configs[idx+1:]...), the slice returned.
removeAt(cfgs, idx) ==
    SubSeq(cfgs, 1, idx) \o SubSeq(cfgs, idx + 2, Len(cfgs))

\* Line 173, seen from the caller: append writes in place (the capacity
\* suffices), so the array under main's configs holds the shortened slice
\* followed by its own old elements from the last one of the callee's slice on.
backingAfterRemove(array, cfgs, idx) ==
    removeAt(cfgs, idx) \o SubSeq(array, Len(cfgs), Len(array))

\* ------------------------------------------------------------------- main

\* strings.HasPrefix
HasPrefix(s, prefix) ==
    /\ Len(s) >= Len(prefix)
    /\ SubSeq(s, 1, Len(prefix)) = prefix

\* Lines 244-247.
RECURSIVE sumLoop(_, _, _)
sumLoop(values, idx, acc) ==
    IF idx > Len(values)
    THEN acc
    ELSE sumLoop(values, idx + 1, acc + values[idx])

\* Lines 253-257: the loop from sequence index idx on.  myTicket.Values[idx]
\* panics when the index is out of range.
RECURSIVE mulLoop(_, _, _, _)
mulLoop(fields, values, idx, acc) ==
    IF idx > Len(fields)
    THEN [panic |-> FALSE, mul |-> acc]
    ELSE IF HasPrefix(fields[idx], DeparturePrefix)
         THEN IF idx > Len(values)
              THEN [panic |-> TRUE, mul |-> acc]
              ELSE mulLoop(fields, values, idx + 1, acc * values[idx])
         ELSE mulLoop(fields, values, idx + 1, acc)

\* Lines 189-196 and the locals of the later code before they are set.
Init ==
    /\ pc = "read"
    /\ line = NoLine
    /\ readConfiguration = TRUE
    /\ readYourTicket = FALSE
    /\ readNearbyTicket = FALSE
    /\ configs = <<>>
    /\ myTicket = Ticket(<<>>)
    /\ validNearbyTickets = <<>>
    /\ invalidValues = <<>>
    /\ valid = TRUE
    /\ invalids = <<>>
    /\ sum = 0
    /\ mul = 1
    /\ goConfigs = <<>>
    /\ fieldSize = 0
    /\ orderedFields = <<>>
    /\ fieldPos = 0
    /\ passConfigs = <<>>
    /\ passFields = <<>>
    /\ configLines = <<>>
    /\ ticketLines = <<>>

\* Lines 204-206: an empty line is skipped.
ReadEmptyLine ==
    /\ pc = "read"
    /\ line' = EmptyLine
    /\ UNCHANGED << pc, readConfiguration, readYourTicket, readNearbyTicket,
                    configs, myTicket, validNearbyTickets, invalidValues,
                    valid, invalids, sum, mul, configLines, ticketLines >>
    /\ UNCHANGED getOrderingVars

\* The "your ticket" branch forgetting to clear readNearbyTicket.
ReadYourTicketMarkerKeepsFlag ==
    /\ pc = "read"
    /\ line' = YourTicketLine
    /\ readConfiguration' = FALSE
    /\ readYourTicket' = TRUE
    /\ UNCHANGED << pc, readNearbyTicket, configs, myTicket,
                    validNearbyTickets, invalidValues, valid, invalids, sum,
                    mul, configLines, ticketLines >>
    /\ UNCHANGED getOrderingVars

\* Lines 210-214: a line that starts with "your ticket".
ReadYourTicketMarker ==
    /\ pc = "read"
    /\ line' = YourTicketLine
    /\ readConfiguration' = FALSE
    /\ readYourTicket' = TRUE
    /\ readNearbyTicket' = FALSE
    /\ UNCHANGED << pc, configs, myTicket, validNearbyTickets, invalidValues,
                    valid, invalids, sum, mul, configLines, ticketLines >>
    /\ UNCHANGED getOrderingVars

\* Lines 215-219: a line that starts with "nearby tickets".
ReadNearbyTicketsMarker ==
    /\ pc = "read"
    /\ line' = NearbyTicketsLine
    /\ readConfiguration' = FALSE
    /\ readYourTicket' = FALSE
    /\ readNearbyTicket' = TRUE
    /\ UNCHANGED << pc, configs, myTicket, validNearbyTickets, invalidValues,
                    valid, invalids, sum, mul, configLines, ticketLines >>
    /\ UNCHANGED getOrderingVars

\* Lines 222-225: a constraint line while readConfiguration is set.
ReadConfigurationLine ==
    /\ pc = "read"
    /\ readConfiguration
    /\ Len(configs) < MaxConfigs
    /\ \E newConfig \in ConfigLines :
        /\ line' = ConfigLine(newConfig)
        /\ configs' = Append(configs, newConfig)
        /\ configLines' = Append(configLines, newConfig)
    /\ UNCHANGED << pc, readConfiguration, readYourTicket, readNearbyTicket,
                    myTicket, validNearbyTickets, invalidValues, valid,
                    invalids, sum, mul, ticketLines >>
    /\ UNCHANGED getOrderingVars

\* Lines 226-229: a ticket line while readYourTicket is set.
ReadYourTicketLine ==
    /\ pc = "read"
    /\ ~readConfiguration
    /\ readYourTicket
    /\ Len(ticketLines) < MaxTickets
    /\ \E ticket \in TicketLines :
        /\ line' = TicketLine(ticket)
        /\ myTicket' = ticket
        /\ validNearbyTickets' = Append(validNearbyTickets, ticket)
        /\ ticketLines' = Append(ticketLines,
                                 [section |-> "your", ticket |-> ticket])
    /\ UNCHANGED << pc, readConfiguration, readYourTicket, readNearbyTicket,
                    configs, invalidValues, valid, invalids, sum, mul,
                    configLines >>
    /\ UNCHANGED getOrderingVars

\* Lines 230-240: a ticket line while readNearbyTicket is set.
ReadNearbyTicketLine ==
    /\ pc = "read"
    /\ ~readConfiguration
    /\ ~readYourTicket
    /\ readNearbyTicket
    /\ Len(ticketLines) < MaxTickets
    /\ \E nearbyTicket \in TicketLines :
        LET res == isValidTicket(nearbyTicket, configs)
        IN  /\ line' = TicketLine(nearbyTicket)
            /\ valid' = res.valid
            /\ invalids' = res.invalids
            /\ IF ~res.valid
               THEN /\ invalidValues' = invalidValues \o res.invalids
                    /\ UNCHANGED validNearbyTickets
               ELSE /\ validNearbyTickets' =
                           Append(validNearbyTickets, nearbyTicket)
                    /\ UNCHANGED invalidValues
            /\ ticketLines' = Append(ticketLines,
                                     [section |-> "nearby",
                                      ticket |-> nearbyTicket])
    /\ UNCHANGED << pc, readConfiguration, readYourTicket, readNearbyTicket,
                    configs, myTicket, sum, mul, configLines >>
    /\ UNCHANGED getOrderingVars

\* Lines 200 and 244-248: the scanner is at the end of the input; the sum of
\* the invalid values is printed.
PrintSum ==
    /\ pc = "read"
    /\ sum' = sumLoop(invalidValues, 1, 0)
    /\ line' = NoLine
    /\ pc' = "call"
    /\ UNCHANGED << readConfiguration, readYourTicket, readNearbyTicket,
                    configs, myTicket, validNearbyTickets, invalidValues,
                    valid, invalids, mul, configLines, ticketLines >>
    /\ UNCHANGED getOrderingVars

\* Lines 252 and 116-117: getOrdering is entered.  tickets[0] panics when no
\* ticket was collected.
CallGetOrdering ==
    /\ pc = "call"
    /\ IF Len(validNearbyTickets) = 0
       THEN /\ pc' = "panic"
            /\ UNCHANGED << goConfigs, fieldSize, orderedFields >>
       ELSE /\ pc' = "loop"
            /\ goConfigs' = configs
            /\ fieldSize' = Len(validNearbyTickets[1].Values)
            /\ orderedFields' =
                   [p \in 1..Len(validNearbyTickets[1].Values) |-> <<>>]
    /\ UNCHANGED << fieldPos, passConfigs, passFields, configs, mul >>
    /\ UNCHANGED mainVars

\* Lines 119 and 121: the outer loop's condition holds and a pass begins.
BeginPass ==
    /\ pc = "loop"
    /\ loopCondition(goConfigs)
    /\ fieldPos' = 0
    /\ passConfigs' = goConfigs
    /\ passFields' = orderedFields
    /\ pc' = "scan"
    /\ UNCHANGED << goConfigs, fieldSize, orderedFields, configs, mul >>
    /\ UNCHANGED mainVars

\* Lines 121-175: one iteration of the loop over the positions.
ScanPosition ==
    /\ pc = "scan"
    /\ fieldPos < fieldSize
    /\ LET values == columnValues(validNearbyTickets, fieldPos)
           st == scanConfigs(goConfigs, values, 0, scanStart)
       IN  IF isUnique(st.validConfigCount)
           THEN /\ orderedFields' =
                       [orderedFields EXCEPT ![fieldPos + 1] =
                                                 st.validConfig.Field]
                /\ goConfigs' = removeAt(goConfigs, st.validConfigIdx)
                /\ configs' = backingAfterRemove(configs, goConfigs,
                                                 st.validConfigIdx)
           ELSE UNCHANGED << orderedFields, goConfigs, configs >>
    /\ fieldPos' = fieldPos + 1
    /\ UNCHANGED << pc, fieldSize, passConfigs, passFields, mul >>
    /\ UNCHANGED mainVars

\* Line 121: fieldPos has reached fieldSize and the pass ends.
EndPass ==
    /\ pc = "scan"
    /\ fieldPos >= fieldSize
    /\ pc' = "loop"
    /\ UNCHANGED << configs, mul >>
    /\ UNCHANGED getOrderingVars
    /\ UNCHANGED mainVars

\* Lines 119 and 178: the outer loop's condition fails and getOrdering returns.
ReturnOrdering ==
    /\ pc = "loop"
    /\ ~loopCondition(goConfigs)
    /\ pc' = "ret"
    /\ UNCHANGED << configs, mul >>
    /\ UNCHANGED getOrderingVars
    /\ UNCHANGED mainVars

\* Lines 251-258: the product is computed and printed.
PrintMul ==
    /\ pc = "ret"
    /\ LET res == mulLoop(orderedFields, myTicket.Values, 1, 1)
       IN  IF res.panic
           THEN /\ pc' = "panic"
                /\ UNCHANGED mul
           ELSE /\ pc' = "done"
                /\ mul' = res.mul
    /\ UNCHANGED configs
    /\ UNCHANGED getOrderingVars
    /\ UNCHANGED mainVars

Next ==
    \/ ReadEmptyLine
    \/ ReadYourTicketMarker
    \/ ReadNearbyTicketsMarker
    \/ ReadConfigurationLine
    \/ ReadYourTicketLine
    \/ ReadNearbyTicketLine
    \/ PrintSum
    \/ CallGetOrdering
    \/ BeginPass
    \/ ScanPosition
    \/ EndPass
    \/ ReturnOrdering
    \/ PrintMul

Spec == Init /\ [][Next]_vars

\* main runs on a single thread: whenever a step is possible, one is taken.
FairSpec == Spec /\ WF_vars(Next)

\* The sequences over S of at most n elements.
SeqsUpTo(S, n) == UNION { [1..k -> S] : k \in 0..n }

\* Line 115: getOrdering as main calls it (line 252) after an input of
\* constraint lines and own-ticket lines: any constraints, and one or more
\* records of one length.
ResolveInit ==
    \E cfgs \in SeqsUpTo(ConfigLines, MaxResolveConfigs) :
        \E tickets \in SeqsUpTo(TicketLines, MaxResolveTickets) \ {<<>>} :
            /\ pc = "call"
            /\ line = NoLine
            /\ readConfiguration = FALSE
            /\ readYourTicket = TRUE
            /\ readNearbyTicket = FALSE
            /\ configs = cfgs
            /\ myTicket = tickets[Len(tickets)]
            /\ validNearbyTickets = tickets
            /\ invalidValues = <<>>
            /\ valid = TRUE
            /\ invalids = <<>>
            /\ sum = 0
            /\ mul = 1
            /\ goConfigs = <<>>
            /\ fieldSize = 0
            /\ orderedFields = <<>>
            /\ fieldPos = 0
            /\ passConfigs = <<>>
            /\ passFields = <<>>
            /\ configLines = cfgs
            /\ ticketLines = [i \in 1..Len(tickets) |->
                                 [section |-> "your", ticket |-> tickets[i]]]

\* Lines 115-179: the steps of getOrdering.
ResolveNext ==
    \/ CallGetOrdering
    \/ BeginPass
    \/ ScanPosition
    \/ EndPass
    \/ ReturnOrdering

ResolveSpec == ResolveInit /\ [][ResolveNext]_vars

\* =================================================================== claims

\* A value satisfies a constraint iff one of its ranges holds it.
Satisfies(c, v) ==
    \E r \in 1..Len(c.Ranges) : c.Ranges[r].Min <= v /\ v <= c.Ranges[r].Max

\* A value is covered iff some constraint of the set satisfies it.
Covered(v, cs) == \E i \in 1..Len(cs) : Satisfies(cs[i], v)

Uncovered(values, cs) == SelectSeq(values, LAMBDA v : ~Covered(v, cs))

\* The number of columns of the records passed to getOrdering.
Columns(tickets) == Len(tickets[1].Values)

\* The constraint fits column p of every record.
Fits(c, tickets, p) ==
    \A t \in 1..Len(tickets) : Satisfies(c, tickets[t].Values[p])

\* The consistent assignments of positions to constraints: each position gets
\* one constraint that fits its column, and no constraint is used twice.
Assignments(tickets, cs) ==
    { f \in [1..Columns(tickets) -> 1..Len(cs)] :
        /\ \A p, q \in 1..Columns(tickets) : f[p] = f[q] => p = q
        /\ \A p \in 1..Columns(tickets) : Fits(cs[f[p]], tickets, p) }

UniqueNames(cs) ==
    \A i, j \in 1..Len(cs) : cs[i].Field = cs[j].Field => i = j

\* The exact-cover invariant on the input of getOrdering.
ExactCover(tickets, cs) ==
    /\ Len(tickets) > 0
    /\ UniqueNames(cs)
    /\ Len(cs) = Columns(tickets)
    /\ Assignments(tickets, cs) # {}

\* The exact-cover invariant with exactly one consistent assignment.
UniqueCover(tickets, cs) ==
    /\ ExactCover(tickets, cs)
    /\ Cardinality(Assignments(tickets, cs)) = 1

\* The tickets of the ticket lines read in the given section.
SectionLines(section) ==
    SelectSeq(ticketLines, LAMBDA l : l.section = section)

\* C1: when getOrdering returns on an input that satisfies the exact-cover
\* invariant, every position holds the name of a constraint of the input and
\* every constraint name of the input is at exactly one position.
C1_ResolveTotal ==
    (pc = "ret" /\ ExactCover(validNearbyTickets, configLines)) =>
        /\ Len(orderedFields) = Columns(validNearbyTickets)
        /\ \A p \in 1..Len(orderedFields) :
               \E i \in 1..Len(configLines) :
                   orderedFields[p] = configLines[i].Field
        /\ \A i \in 1..Len(configLines) :
               Cardinality({ p \in 1..Len(orderedFields) :
                               orderedFields[p] = configLines[i].Field }) = 1

\* getOrdering has returned on an exact-cover input of two constraints that
\* took more than one pass.
C1_Witness ==
    /\ pc = "ret"
    /\ ExactCover(validNearbyTickets, configLines)
    /\ Len(configLines) >= 2
    /\ passConfigs # configLines

\* C2 as claimed: on every input that satisfies the exact-cover invariant,
\* getOrdering returns.
C2_TerminatesOnExactCover ==
    (pc = "call" /\ ExactCover(validNearbyTickets, configLines))
        ~> (pc = "ret")

\* C2 as amended: on every input that satisfies the exact-cover invariant and
\* has exactly one consistent assignment, getOrdering returns.
C2_TerminatesOnUniqueCover ==
    (pc = "call" /\ UniqueCover(validNearbyTickets, configLines))
        ~> (pc = "ret")

\* getOrdering has returned on a unique-cover input of two constraints after
\* more than one pass.
C2_Witness ==
    /\ pc = "ret"
    /\ UniqueCover(validNearbyTickets, configLines)
    /\ Len(configLines) >= 2
    /\ Len(passConfigs) = 1

\* C3: isValidTicket returns true iff every value of the record is covered;
\* the invalid values it returns are the uncovered values of the record, in
\* record order, each occurrence kept; they are empty when it returns true.
\* (valid and invalids hold the results of main's last call, which was on the
\* last line of the nearby section.)
C3_ValidateExact ==
    LET nearby == SectionLines("nearby")
    IN  Len(nearby) > 0 =>
            LET values == nearby[Len(nearby)].ticket.Values
            IN  /\ valid <=> \A i \in 1..Len(values) :
                                 Covered(values[i], configLines)
                /\ invalids = Uncovered(values, configLines)
                /\ valid => invalids = <<>>

\* A record was found invalid with one covered and one uncovered value.
C3_Witness ==
    /\ Len(SectionLines("nearby")) > 0
    /\ ~valid
    /\ Len(invalids) = 1
    /\ Len(configLines) > 0

RECURSIVE SeqSum(_)
SeqSum(values) ==
    IF values = <<>> THEN 0 ELSE Head(values) + SeqSum(Tail(values))

\* The sum of the uncovered values of the given ticket lines.
RECURSIVE UncoveredSum(_, _)
UncoveredSum(lines, cs) ==
    IF lines = <<>>
    THEN 0
    ELSE SeqSum(Uncovered(Head(lines).ticket.Values, cs))
             + UncoveredSum(Tail(lines), cs)

\* C4: the first printed result is the sum, over the records of the nearby
\* section, of the values that satisfy no constraint; own records never
\* contribute.
C4_SumOfUncoveredNearby ==
    pc # "read" => sum = UncoveredSum(SectionLines("nearby"), configLines)

\* The sum was printed for an input whose own record and nearby record both
\* hold an uncovered value.
C4_Witness ==
    /\ pc = "call"
    /\ sum > 0
    /\ Len(configLines) > 0
    /\ \E i \in 1..Len(ticketLines) :
           /\ ticketLines[i].section = "your"
           /\ Uncovered(ticketLines[i].ticket.Values, configLines) # <<>>

\* The name begins with the ten characters of "departure ".
BeginsWithDeparture(name) ==
    /\ Len(name) >= 10
    /\ << name[1], name[2], name[3], name[4], name[5],
          name[6], name[7], name[8], name[9], name[10] >>
           = << "d", "e", "p", "a", "r", "t", "u", "r", "e", " " >>

\* The product of the values at the given positions.
RECURSIVE ProductAt(_, _)
ProductAt(values, positions) ==
    IF positions = {}
    THEN 1
    ELSE LET p == CHOOSE q \in positions : TRUE
         IN  values[p] * ProductAt(values, positions \ {p})

AllCovered(ticket, cs) ==
    \A i \in 1..Len(ticket.Values) : Covered(ticket.Values[i], cs)

TicketsOf(lines) == [i \in 1..Len(lines) |-> lines[i].ticket]

\* C6 as claimed: the records passed to getOrdering are exactly the records
\* of the nearby section that are valid, in input order.
C6_OnlyValidNearbyPassed ==
    pc = "call" =>
        validNearbyTickets =
            TicketsOf(SelectSeq(ticketLines,
                                LAMBDA l : /\ l.section = "nearby"
                                           /\ AllCovered(l.ticket, configLines)))

\* C6 as amended: the records passed to getOrdering are exactly, in input
\* order, every record of the own-ticket section (none of them validated) and
\* every record of the nearby section that is valid.
C6_OwnAndValidNearbyPassed ==
    pc = "call" =>
        validNearbyTickets =
            TicketsOf(SelectSeq(ticketLines,
                                LAMBDA l : \/ l.section = "your"
                                           \/ AllCovered(l.ticket, configLines)))

\* getOrdering is about to be called with an own record that holds an
\* uncovered value, after a nearby record was dropped as invalid.
C6_Witness ==
    /\ pc = "call"
    /\ Len(validNearbyTickets) = 1
    /\ Len(ticketLines) = 2
    /\ \E i \in 1..Len(ticketLines) :
           /\ ticketLines[i].section = "your"
           /\ ~AllCovered(ticketLines[i].ticket, configLines)

\* C7 as claimed: during and after getOrdering, main's configs hold the
\* constraints parsed from the input, with the same names and ranges in the
\* same order.
C7_CallerConfigsUnchanged ==
    pc \in {"loop", "scan", "ret", "done", "panic"} => configs = configLines

\* Position p was assigned during the current pass.
AssignedThisPass(p) == passFields[p] = <<>> /\ orderedFields[p] # <<>>

\* The constraint was assigned to a position before q during the current pass.
RemovedBefore(c, q) ==
    \E p \in 1..(q - 1) : AssignedThisPass(p) /\ orderedFields[p] = c.Field

\* The indexes of the remaining constraints that fit column q.
Candidates(q) ==
    { i \in 1..Len(goConfigs) : Fits(goConfigs[i], validNearbyTickets, q) }

\* When a position is examined, the remaining set is the set the pass began
\* with, less the constraints assigned to earlier positions of this pass.
C8_RemainingAtPosition ==
    pc = "scan" =>
        goConfigs = SelectSeq(passConfigs,
                              LAMBDA c : ~RemovedBefore(c, fieldPos + 1))

\* A position that one remaining constraint fits, and that a constraint
\* assigned earlier in this pass fits too, is resolved when it is examined.
C8_ResolvedInSamePass ==
    (pc = "scan" /\ fieldPos < fieldSize) =>
        \A i \in Candidates(fieldPos + 1) :
            ( /\ Candidates(fieldPos + 1) = {i}
              /\ \E k \in 1..Len(passConfigs) :
                     /\ RemovedBefore(passConfigs[k], fieldPos + 1)
                     /\ Fits(passConfigs[k], validNearbyTickets, fieldPos + 1) )
            => /\ orderedFields'[fieldPos + 1] = goConfigs[i].Field
               /\ goConfigs' = SelectSeq(goConfigs,
                                         LAMBDA c : c # goConfigs[i])

\* C8: within a pass the constraint of a resolved position is removed before
\* the next position is examined, so a later position that was ambiguous only
\* because of it is resolved in the same pass.
C8_SamePassRemoval ==
    [](C8_RemainingAtPosition) /\ [][C8_ResolvedInSamePass]_vars

\* Two positions were assigned in one pass, and the constraint of the first
\* fits the second.
C8_Witness ==
    /\ pc = "scan"
    /\ \E p, q \in 1..fieldPos :
           /\ p < q
           /\ AssignedThisPass(p)
           /\ AssignedThisPass(q)
           /\ \E k \in 1..Len(passConfigs) :
                  /\ passConfigs[k].Field = orderedFields[p]
                  /\ Fits(passConfigs[k], validNearbyTickets, q)

\* C9: a position that holds a name keeps it, and no constraint is removed
\* when that position is examined again.
C9_AssignedOnce ==
    [][ \A p \in 1..Len(orderedFields) :
            orderedFields[p] # <<>> =>
                /\ orderedFields'[p] = orderedFields[p]
                /\ (pc = "scan" /\ fieldPos + 1 = p) => goConfigs' = goConfigs
      ]_vars

\* A position that holds a name is about to be examined again while
\* constraints remain.
C9_Witness ==
    /\ pc = "scan"
    /\ fieldPos < fieldSize
    /\ orderedFields[fieldPos + 1] # <<>>
    /\ Len(goConfigs) > 0

\* A pass has ended with constraints remaining and nothing resolved.
StuckAtHead ==
    /\ pc = "loop"
    /\ Len(goConfigs) > 0
    /\ goConfigs = passConfigs
    /\ orderedFields = passFields

\* C10: after a pass that ends with constraints remaining and nothing
\* resolved, the remaining set and the mapping stay as they were at the start
\* of that pass, every later pass ends the same way, and getOrdering never
\* returns.
C10_StuckForever ==
    [](StuckAtHead =>
           [](/\ pc \in {"loop", "scan"}
              /\ goConfigs = passConfigs
              /\ orderedFields = passFields
              /\ pc = "loop" => StuckAtHead))

\* A pass has ended with one constraint remaining, nothing resolved in it,
\* and one position resolved by an earlier pass.
C10_Witness ==
    /\ StuckAtHead
    /\ Len(goConfigs) = 1
    /\ \E p \in 1..Len(orderedFields) : orderedFields[p] # <<>>

\* The step of a resolver that counts every remaining constraint that fits
\* position q, and assigns iff the count is exactly one.
FullEnumerationStep(q) ==
    IF Cardinality(Candidates(q)) = 1
    THEN LET i == CHOOSE k \in Candidates(q) : TRUE
         IN  /\ orderedFields' = [orderedFields EXCEPT ![q] = goConfigs[i].Field]
             /\ goConfigs' = [k \in 1..(Len(goConfigs) - 1) |->
                                IF k < i THEN goConfigs[k] ELSE goConfigs[k + 1]]
    ELSE /\ orderedFields' = orderedFields
         /\ goConfigs' = goConfigs

\* C11: every examination of a position by getOrdering, which stops at the
\* second constraint that fits, changes the remaining set and the mapping as
\* the full enumeration does; the other steps of getOrdering do not read the
\* scan, so the state sequences, the returned mapping and the inputs on
\* which it does not return are the same.
C11_ShortCircuitIsFullEnumeration ==
    [][ (pc = "scan" /\ fieldPos < fieldSize) =>
            FullEnumerationStep(fieldPos + 1) ]_vars

\* A position that three remaining constraints fit has been examined and left
\* unassigned: the scan stopped before the third.
C11_Witness ==
    /\ pc = "scan"
    /\ fieldPos >= 1
    /\ orderedFields[fieldPos] = <<>>
    /\ Cardinality(Candidates(fieldPos)) >= 3

\* getOrdering is running or has returned.
InGetOrdering == pc \in {"loop", "scan", "ret"}

\* The positions that hold a name.
AssignedPositions == { p \in 1..Len(orderedFields) : orderedFields[p] # <<>> }

\* Every name in the mapping is the name of a constraint of the input that
\* fits the position's column in every record.
C13_AssignedFits ==
    InGetOrdering =>
        \A p \in AssignedPositions :
            \E i \in 1..Len(configLines) :
                /\ configLines[i].Field = orderedFields[p]
                /\ Fits(configLines[i], validNearbyTickets, p)

\* A step that assigns a position gives it the name of a remaining constraint
\* that fits it, and no other remaining constraint fits it.
C13_AssignedAlone ==
    \A p \in 1..Len(orderedFields) :
        orderedFields'[p] # orderedFields[p] =>
            \E i \in 1..Len(goConfigs) :
                /\ goConfigs[i].Field = orderedFields'[p]
                /\ Fits(goConfigs[i], validNearbyTickets, p)
                /\ \A j \in 1..Len(goConfigs) :
                       j # i => ~Fits(goConfigs[j], validNearbyTickets, p)

\* C13: for any input, a name in the mapping is the name of a constraint that
\* the value at that position of every record passed to getOrdering
\* satisfies, and when it was assigned no other remaining constraint was
\* satisfied by all of those values.
C13_SoundAssignment ==
    [](C13_AssignedFits) /\ [][C13_AssignedAlone]_vars

\* A position is assigned while two records with different values at that
\* position were passed and another constraint remains.
C13_Witness ==
    /\ pc = "scan"
    /\ Len(validNearbyTickets) = 2
    /\ Len(goConfigs) > 0
    /\ \E p \in AssignedPositions :
           validNearbyTickets[1].Values[p] # validNearbyTickets[2].Values[p]

\* The names in the mapping are pairwise distinct, none is the name of a
\* remaining constraint, and assigned positions and remaining constraints
\* add up to N.
C14_Books ==
    (InGetOrdering /\ UniqueNames(configLines)) =>
        /\ \A p, q \in AssignedPositions :
               orderedFields[p] = orderedFields[q] => p = q
        /\ \A p \in AssignedPositions :
               \A i \in 1..Len(goConfigs) :
                   goConfigs[i].Field # orderedFields[p]
        /\ Cardinality(AssignedPositions) + Len(goConfigs) = Len(configLines)

\* A step of getOrdering leaves the remaining set and the mapping alone, or
\* assigns one position and removes exactly one constraint.
C14_ShrinksByOne ==
    (pc \in {"loop", "scan"} /\ UniqueNames(configLines)) =>
        \/ goConfigs' = goConfigs /\ orderedFields' = orderedFields
        \/ /\ Cardinality({ p \in 1..Len(orderedFields) :
                              orderedFields'[p] # orderedFields[p] }) = 1
           /\ \E i \in 1..Len(goConfigs) :
                  goConfigs' = [k \in 1..(Len(goConfigs) - 1) |->
                                  IF k < i THEN goConfigs[k]
                                  ELSE goConfigs[k + 1]]

\* C14: for any input with N uniquely named constraints, in every state of
\* getOrdering the names in the mapping are pairwise distinct, none is the
\* name of a remaining constraint, assigned positions plus remaining
\* constraints are N, and the remaining set only shrinks, by exactly one
\* constraint per assignment.
C14_Bookkeeping ==
    [](C14_Books) /\ [][C14_ShrinksByOne]_vars

\* Of three uniquely named constraints two are assigned and one remains.
C14_Witness ==
    /\ pc = "scan"
    /\ UniqueNames(configLines)
    /\ Len(configLines) = 3
    /\ Cardinality(AssignedPositions) = 2
    /\ Len(goConfigs) = 1

\* The section flags of main, and the three modes of the parser as the flags
\* hold them.
modeFlags == << readConfiguration, readYourTicket, readNearbyTicket >>

ReadingConstraints == modeFlags = << TRUE, FALSE, FALSE >>

ReadingOwnTicket == modeFlags = << FALSE, TRUE, FALSE >>

ReadingNearbyTickets == modeFlags = << FALSE, FALSE, TRUE >>

\* Exactly one mode is active.
C12_OneMode ==
    \/ ReadingConstraints
    \/ ReadingOwnTicket
    \/ ReadingNearbyTickets

\* What parsing a line as a constraint or as a record could change.
parsedData ==
    << configs, myTicket, validNearbyTickets, invalidValues, configLines,
       ticketLines >>

\* A step of the line loop, by the line it read: a marker line sets its mode
\* and parses nothing, an empty line changes nothing, and any other line
\* keeps the mode and is handled as the active mode says.
C12_LineHandling ==
    (pc = "read" /\ pc' = "read") =>
        /\ line'.kind = "your ticket" =>
               ReadingOwnTicket' /\ UNCHANGED parsedData
        /\ line'.kind = "nearby tickets" =>
               ReadingNearbyTickets' /\ UNCHANGED parsedData
        /\ line'.kind = "empty" =>
               UNCHANGED modeFlags /\ UNCHANGED parsedData
        /\ line'.kind \in {"config", "ticket"} =>
               /\ UNCHANGED modeFlags
               /\ ReadingConstraints =>
                      /\ configs' = Append(configs, line'.config)
                      /\ UNCHANGED << myTicket, validNearbyTickets,
                                      invalidValues >>
               /\ ReadingOwnTicket =>
                      /\ myTicket' = line'.ticket
                      /\ validNearbyTickets' =
                             Append(validNearbyTickets, line'.ticket)
                      /\ UNCHANGED << configs, invalidValues >>
               /\ ReadingNearbyTickets =>
                      /\ UNCHANGED << configs, myTicket >>
                      /\ \/ /\ validNearbyTickets' =
                                   Append(validNearbyTickets, line'.ticket)
                            /\ UNCHANGED invalidValues
                         \/ /\ UNCHANGED validNearbyTickets
                            /\ Len(invalidValues') > Len(invalidValues)

\* C12: the line loop is a three-mode parser: it starts in
\* ReadingConstraints, exactly one mode is active at every point, the marker
\* lines switch the mode, marker lines and empty lines are never parsed as a
\* constraint or a record, and every other line is handled according to the
\* active mode only.
C12_ThreeModeParser ==
    ReadingConstraints /\ [](C12_OneMode) /\ [][C12_LineHandling]_vars

\* The "your ticket" marker has just switched the parser back from
\* ReadingNearbyTickets, after a nearby record was read.
C12_Witness ==
    /\ pc = "read"
    /\ line = YourTicketLine
    /\ ReadingOwnTicket
    /\ \E i \in 1..Len(ticketLines) : ticketLines[i].section = "nearby"

====
